---------------------------- MODULE Spec2Model ----------------------------
(***************************************************************************)
(* A model of src/main.py, the Streamlit dashboard of the polar-plant EC   *)
(* study: the normalization-insensitive file resolver, the two cached      *)
(* loaders, the st.stop gate and the aggregation done by the three tabs.   *)
(*                                                                         *)
(* Conventions                                                             *)
(*  - a string is a sequence of Unicode code points (naturals);            *)
(*  - a Python dict is a sequence of [k, v] records in insertion order;    *)
(*  - a float read from a file is an integer here; a mean is the exact     *)
(*    rational [s, n] (sum, count), and n = 0 is NaN;                      *)
(*  - a spreadsheet cell is <<>> (blank, read as NaN) or <<v>>.            *)
(***************************************************************************)
EXTENDS Integers, Sequences, FiniteSets, TLC

VARIABLES
    fs,             \* the filesystem: DATA_DIR, its listing and the files' contents
    target,         \* the resolver's argument (resolver specification only)
    resolved,       \* the resolver's result   (resolver specification only)
    cache,          \* st.cache_data: one entry per loader
    pc,             \* position of the script run
    done,           \* the steps the current script run has executed, in order
    env_data,       \* module-level env_data of the current run
    growth_data,    \* module-level growth_data of the current run
    errors,         \* st.error messages shown in the current run
    exc,            \* the uncaught exception that ended the run, "" if none
    school_option,  \* the sidebar's selection
    out,            \* what the tabs computed in the current run
    runs,           \* script runs started in this process
    loads           \* how often each loader's body has run in this process

vars == <<fs, target, resolved, cache, pc, done, env_data, growth_data,
          errors, exc, school_option, out, runs, loads>>

----------------------------------------------------------------------------
(* Bounds of the model.                                                    *)

MaxDirEntries == 2      \* entries of a directory handed to the resolver
MaxRows == 1            \* readings in one environment file
MaxSheets == 2          \* sheets of a workbook
MaxRuns == 3            \* script runs of one process

----------------------------------------------------------------------------
(* Unicode normalization, as unicodedata.normalize does it for the code    *)
(* points the program's names are made of: Hangul syllables and conjoining *)
(* jamo (algorithmic decomposition and composition, Unicode ch. 3.12) and  *)
(* ASCII (unchanged).  All of them have combining class 0, so canonical    *)
(* reordering never moves anything.                                        *)

SBase == 44032
LBase == 4352
VBase == 4449
TBase == 4519
LCount == 19
VCount == 21
TCount == 28
NCount == VCount * TCount
SCount == LCount * NCount

IsSyllable(c) == c >= SBase /\ c < SBase + SCount
IsL(c) == c >= LBase /\ c < LBase + LCount
IsV(c) == c >= VBase /\ c < VBase + VCount
IsT(c) == c > TBase /\ c < TBase + TCount

Decompose(c) ==
    IF IsSyllable(c)
    THEN LET si == c - SBase
             l == LBase + (si \div NCount)
             v == VBase + ((si % NCount) \div TCount)
             t == TBase + (si % TCount)
         IN  IF t = TBase THEN <<l, v>> ELSE <<l, v, t>>
    ELSE <<c>>

RECURSIVE DecomposeAll(_)
DecomposeAll(s) ==
    IF s = <<>> THEN <<>> ELSE Decompose(Head(s)) \o DecomposeAll(Tail(s))

RECURSIVE ComposeFrom(_, _)
ComposeFrom(acc, s) ==
    IF s = <<>> THEN acc
    ELSE LET ch == Head(s)
             n == Len(acc)
             last == IF n = 0 THEN 0 ELSE acc[n]
         IN  IF n > 0 /\ IsL(last) /\ IsV(ch)
             THEN ComposeFrom(
                    [acc EXCEPT ![n] =
                        SBase + ((last - LBase) * VCount + (ch - VBase)) * TCount],
                    Tail(s))
             ELSE IF n > 0 /\ IsSyllable(last) /\ (last - SBase) % TCount = 0 /\ IsT(ch)
             THEN ComposeFrom([acc EXCEPT ![n] = last + (ch - TBase)], Tail(s))
             ELSE ComposeFrom(Append(acc, ch), Tail(s))

normalize(s, form) ==
    IF form = "NFD" THEN DecomposeAll(s) ELSE ComposeFrom(<<>>, DecomposeAll(s))

----------------------------------------------------------------------------
(* find_file_by_name.  The result is [kind, index]: "found" with the       *)
(* position of the entry in iteration order, "none" for None, "raise" for  *)
(* the FileNotFoundError of Path.iterdir() on a directory that is absent.  *)

Found(i) == [kind |-> "found", index |-> i]
NotFound == [kind |-> "none", index |-> 0]
Raised == [kind |-> "raise", index |-> 0]

\* The comparison of line 49 done on the raw entry name.
EntryMatchesRaw(name, target_nfc, target_nfd) ==
    name = target_nfc \/ name = target_nfd

EntryMatches(name, target_nfc, target_nfd) ==
    normalize(name, "NFC") = target_nfc \/ normalize(name, "NFD") = target_nfd

RECURSIVE IterDir(_, _, _, _)
IterDir(entries, i, target_nfc, target_nfd) ==
    IF i > Len(entries) THEN NotFound
    ELSE IF EntryMatches(entries[i].name, target_nfc, target_nfd) THEN Found(i)
    ELSE IterDir(entries, i + 1, target_nfc, target_nfd)

find_file_by_name(directory, target_name) ==
    LET target_nfc == normalize(target_name, "NFC")
        target_nfd == normalize(target_name, "NFD")
    IN  IF ~directory.exists THEN Raised
        ELSE IterDir(directory.entries, 1, target_nfc, target_nfd)

----------------------------------------------------------------------------
(* Python dicts, kept in insertion order.                                  *)

DictHas(d, k) == \E i \in 1..Len(d) : d[i].k = k

DictGet(d, k) == d[CHOOSE i \in 1..Len(d) : d[i].k = k].v

DictPut(d, k, v) ==
    IF DictHas(d, k)
    THEN [i \in 1..Len(d) |-> IF d[i].k = k THEN [k |-> k, v |-> v] ELSE d[i]]
    ELSE Append(d, [k |-> k, v |-> v])

DictKeys(d) == [i \in 1..Len(d) |-> d[i].k]

DictValues(d) == [i \in 1..Len(d) |-> d[i].v]

RECURSIVE concat(_)
concat(tables) ==
    IF tables = <<>> THEN <<>> ELSE Head(tables) \o concat(Tail(tables))

----------------------------------------------------------------------------
(* The program's constants.  EC targets 1.0, 2.0, 4.0, 8.0.                *)

SongdoName == <<49569, 46020, 44256>>
HaneulName == <<54616, 45720, 44256>>
AraName == <<50500, 46972, 44256>>
DongsanName == <<46041, 49328, 44256>>

SCHOOL_INFO ==
    << [k |-> SongdoName,  v |-> [ec |-> 1, color |-> "#1f77b4"]],
       [k |-> HaneulName,  v |-> [ec |-> 2, color |-> "#2ca02c"]],
       [k |-> AraName,     v |-> [ec |-> 4, color |-> "#ff7f0e"]],
       [k |-> DongsanName, v |-> [ec |-> 8, color |-> "#d62728"]] >>

Schools == {SCHOOL_INFO[i].k : i \in 1..Len(SCHOOL_INFO)}

\* f"{school}_환경데이터.csv"
EnvFileName(school) ==
    school \o <<95, 54872, 44221, 45936, 51060, 53552, 46, 99, 115, 118>>

\* "4개교_생육결과데이터.xlsx"
GrowthFileName ==
    <<52, 44060, 44368, 95, 49373, 50977, 44208, 44284, 45936, 51060, 53552,
      46, 120, 108, 115, 120>>

\* "전체"
AllOption == <<51204, 52404>>

----------------------------------------------------------------------------
(* Tables.  An environment reading has the columns temperature, humidity,  *)
(* ph and ec (ph and ec in tenths); a growth record has the column         *)
(* 생중량(g), here weight, a cell.  The loaders add the column 학교, here    *)
(* school.  pd.read_csv / pd.ExcelFile / pd.read_excel raise on a file or  *)
(* sheet whose ok flag is FALSE.                                           *)

TagReading(r, school) ==
    [temperature |-> r.temperature, humidity |-> r.humidity, ph |-> r.ph,
     ec |-> r.ec, school |-> school]

TagRecord(r, school) == [weight |-> r.weight, school |-> school]

\* df["학교"] = school with the wrong tag: every table tagged with the first school.
TagReadingsFirst(rows, school) ==
    [i \in 1..Len(rows) |-> TagReading(rows[i], SCHOOL_INFO[1].k)]

TagReadings(rows, school) == [i \in 1..Len(rows) |-> TagReading(rows[i], school)]

TagRecords(rows, sheet) == [i \in 1..Len(rows) |-> TagRecord(rows[i], sheet)]

\* A loader's outcome: a dict, None, or an exception leaving the function.
RetDict(items, n) ==
    [kind |-> "dict", items |-> items, msgs |-> <<>>, exc |-> "", read |-> n]
RetNone(msg, n) ==
    [kind |-> "none", items |-> <<>>, msgs |-> <<msg>>, exc |-> "", read |-> n]
Raise(e, n) ==
    [kind |-> "raise", items |-> <<>>, msgs |-> <<>>, exc |-> e, read |-> n]

\* The loop of load_env_data without the return of line 64.
RECURSIVE env_loop_lenient(_, _, _)
env_loop_lenient(dir, i, env) ==
    IF i > Len(SCHOOL_INFO) THEN RetDict(env, Len(env))
    ELSE LET school == SCHOOL_INFO[i].k
             fname == EnvFileName(school)
             file_path == find_file_by_name(dir, fname)
         IN  IF file_path.kind = "raise" THEN Raise("FileNotFoundError", Len(env))
             ELSE IF file_path.kind = "none" THEN env_loop_lenient(dir, i + 1, env)
             ELSE LET file == dir.entries[file_path.index].content
                  IN  IF ~file.ok THEN Raise("ParserError", Len(env))
                      ELSE env_loop_lenient(dir, i + 1,
                              DictPut(env, school, TagReadings(file.rows, school)))

RECURSIVE env_loop(_, _, _)
env_loop(dir, i, env) ==
    IF i > Len(SCHOOL_INFO) THEN RetDict(env, Len(env))
    ELSE LET school == SCHOOL_INFO[i].k
             fname == EnvFileName(school)
             file_path == find_file_by_name(dir, fname)
         IN  IF file_path.kind = "raise" THEN Raise("FileNotFoundError", Len(env))
             ELSE IF file_path.kind = "none"
             THEN RetNone([text |-> "env_missing", file |-> fname], Len(env))
             ELSE LET file == dir.entries[file_path.index].content
                  IN  IF ~file.ok THEN Raise("ParserError", Len(env))
                      ELSE env_loop(dir, i + 1,
                              DictPut(env, school, TagReadings(file.rows, school)))

\* The body of load_env_data (what runs on a cache miss).
load_env_data_body(dir) == env_loop(dir, 1, <<>>)

\* The sheet loop of load_growth_data reading only the sheets named in SCHOOL_INFO.
RECURSIVE sheet_loop_known(_, _, _)
sheet_loop_known(sheets, i, growth) ==
    IF i > Len(sheets) THEN RetDict(growth, Len(growth))
    ELSE IF ~DictHas(SCHOOL_INFO, sheets[i].name)
    THEN sheet_loop_known(sheets, i + 1, growth)
    ELSE IF ~sheets[i].ok THEN Raise("ParserError", Len(growth))
    ELSE sheet_loop_known(sheets, i + 1,
            DictPut(growth, sheets[i].name,
                    TagRecords(sheets[i].rows, sheets[i].name)))

RECURSIVE sheet_loop(_, _, _)
sheet_loop(sheets, i, growth) ==
    IF i > Len(sheets) THEN RetDict(growth, Len(growth))
    ELSE IF ~sheets[i].ok THEN Raise("ParserError", Len(growth))
    ELSE sheet_loop(sheets, i + 1,
            DictPut(growth, sheets[i].name,
                    TagRecords(sheets[i].rows, sheets[i].name)))

\* The body of load_growth_data (what runs on a cache miss).
load_growth_data_body(dir) ==
    LET file_path == find_file_by_name(dir, GrowthFileName)
    IN  IF file_path.kind = "raise" THEN Raise("FileNotFoundError", 0)
        ELSE IF file_path.kind = "none"
        THEN RetNone([text |-> "growth_missing", file |-> <<>>], 0)
        ELSE LET xls == dir.entries[file_path.index].content
             IN  IF ~xls.ok THEN Raise("BadZipFile", 0)
                 ELSE sheet_loop(xls.sheets, 1, <<>>)

----------------------------------------------------------------------------
(* st.cache_data.  Both loaders take no argument, so each has one entry.   *)
(* A returned value (None included) is stored with the st.error calls made *)
(* while computing it, which a hit replays; an exception stores nothing.   *)

NoEntry == [hit |-> FALSE, kind |-> "none", items |-> <<>>, msgs |-> <<>>]

EmptyCache == [env |-> NoEntry, growth |-> NoEntry]

Entry(r) == [hit |-> TRUE, kind |-> r.kind, items |-> r.items, msgs |-> r.msgs]

\* A cache that never answers: the decorator missing.
CachedCallUncached(entry, body) == body

\* What a call of a cached loader returns: the entry on a hit, the body's outcome on a miss.
CachedCall(entry, body) ==
    IF entry.hit
    THEN [kind |-> entry.kind, items |-> entry.items, msgs |-> entry.msgs,
          exc |-> "", read |-> 0]
    ELSE body

----------------------------------------------------------------------------
(* Aggregation.  Series.mean() skips NaN; the mean of no value is NaN.     *)

RECURSIVE SumInts(_)
SumInts(xs) == IF xs = <<>> THEN 0 ELSE Head(xs) + SumInts(Tail(xs))

RECURSIVE SumCells(_)
SumCells(cells) ==
    IF cells = <<>> THEN 0
    ELSE (IF Head(cells) = <<>> THEN 0 ELSE Head(cells)[1]) + SumCells(Tail(cells))

RECURSIVE CountCells(_)
CountCells(cells) ==
    IF cells = <<>> THEN 0
    ELSE (IF Head(cells) = <<>> THEN 0 ELSE 1) + CountCells(Tail(cells))

Column(df, col) ==
    [i \in 1..Len(df) |->
        CASE col = "temperature" -> df[i].temperature
          [] col = "humidity" -> df[i].humidity
          [] col = "ph" -> df[i].ph
          [] col = "ec" -> df[i].ec
          [] OTHER -> df[i].weight]

\* mean of a numeric column without blanks
mean(xs) == [s |-> SumInts(xs), n |-> Len(xs)]

\* mean of a column of cells, blanks skipped
mean_cells(cells) == [s |-> SumCells(cells), n |-> CountCells(cells)]

IsNaN(m) == m.n = 0

\* a > b on floats: FALSE as soon as one side is NaN
Gt(a, b) == a.n > 0 /\ b.n > 0 /\ a.s * b.n > b.s * a.n

\* lines 119-124
info_rows(growth) ==
    [i \in 1..Len(SCHOOL_INFO) |->
        [school |-> SCHOOL_INFO[i].k,
         ec |-> SCHOOL_INFO[i].v.ec,
         n |-> IF DictHas(growth, SCHOOL_INFO[i].k)
               THEN Len(DictGet(growth, SCHOOL_INFO[i].k)) ELSE 0,
         color |-> SCHOOL_INFO[i].v.color]]

total_plants(growth) ==
    SumInts([i \in 1..Len(SCHOOL_INFO) |-> info_rows(growth)[i].n])

\* lines 136-139: the dict comprehension; ok = FALSE is the KeyError of SCHOOL_INFO[k]
RECURSIVE avg_weights_from(_, _, _)
avg_weights_from(growth, i, acc) ==
    IF i > Len(growth) THEN [ok |-> TRUE, d |-> acc]
    ELSE IF ~DictHas(SCHOOL_INFO, growth[i].k) THEN [ok |-> FALSE, d |-> <<>>]
    ELSE avg_weights_from(growth, i + 1,
            DictPut(acc, DictGet(SCHOOL_INFO, growth[i].k).ec,
                    mean_cells(Column(growth[i].v, "weight"))))

avg_weights(growth) == avg_weights_from(growth, 1, <<>>)

\* max(d, key=d.get): the first key is kept until a later one compares greater
RECURSIVE py_max_from(_, _, _)
py_max_from(d, i, best) ==
    IF i > Len(d) THEN d[best].k
    ELSE IF Gt(d[i].v, d[best].v) THEN py_max_from(d, i + 1, i)
    ELSE py_max_from(d, i + 1, best)

\* line 140
optimal_ec(d) == py_max_from(d, 2, 1)

\* lines 154-163
summary(env) ==
    [i \in 1..Len(env) |->
        [school |-> env[i].k,
         temperature |-> mean(Column(env[i].v, "temperature")),
         humidity |-> mean(Column(env[i].v, "humidity")),
         ph |-> mean(Column(env[i].v, "ph")),
         ec |-> mean(Column(env[i].v, "ec")),
         target |-> DictGet(SCHOOL_INFO, env[i].k).ec]]

\* lines 187-189
schools_to_plot(option) ==
    IF option = AllOption THEN DictKeys(SCHOOL_INFO) ELSE <<option>>

\* lines 232-239; every key is a school here, or tab 1 has raised
weight_df(growth) ==
    [i \in 1..Len(growth) |->
        [EC |-> DictGet(SCHOOL_INFO, growth[i].k).ec,
         mean |-> mean_cells(Column(growth[i].v, "weight")),
         school |-> growth[i].k]]

\* Series.idxmax(): the first position of the greatest value, NaN skipped;
\* 0 when every value is NaN
RECURSIVE idxmax_from(_, _, _)
idxmax_from(col, i, best) ==
    IF i > Len(col) THEN best
    ELSE IF IsNaN(col[i]) THEN idxmax_from(col, i + 1, best)
    ELSE IF best = 0 \/ Gt(col[i], col[best]) THEN idxmax_from(col, i + 1, i)
    ELSE idxmax_from(col, i + 1, best)

idxmax(col) == idxmax_from(col, 1, 0)

----------------------------------------------------------------------------
(* The script run.                                                         *)

NoData == [kind |-> "unset", items |-> <<>>]

NoOut ==
    [info_rows |-> <<>>, total_plants |-> <<>>, avg_temp |-> <<>>,
     avg_hum |-> <<>>, optimal_ec |-> <<>>, summary |-> <<>>, plotted |-> <<>>,
     env_all |-> <<>>, weight_df |-> <<>>, best_ec |-> <<>>, dist_df |-> <<>>]

Ended == {"done", "stopped", "raised"}

PresentationSteps == {"sidebar", "title", "tab1", "tab2", "tab3"}

\* line 87
LoadEnvData ==
    /\ pc = "load_env_data"
    /\ \E r \in {CachedCall(cache.env, load_env_data_body(fs))} :
           /\ done' = Append(done, "load_env_data")
           /\ loads' = IF cache.env.hit THEN loads
                       ELSE [loads EXCEPT !.env = @ + 1]
           /\ IF r.kind = "raise"
              THEN /\ pc' = "raised"
                   /\ exc' = r.exc
                   /\ UNCHANGED <<env_data, errors, cache>>
              ELSE /\ pc' = "load_growth_data"
                   /\ env_data' = [kind |-> r.kind, items |-> r.items]
                   /\ errors' = errors \o r.msgs
                   /\ cache' = [cache EXCEPT !.env = Entry(r)]
                   /\ UNCHANGED exc
    /\ UNCHANGED <<fs, target, resolved, growth_data, school_option, out, runs>>

\* line 88
LoadGrowthData ==
    /\ pc = "load_growth_data"
    /\ \E r \in {CachedCall(cache.growth, load_growth_data_body(fs))} :
           /\ done' = Append(done, "load_growth_data")
           /\ loads' = IF cache.growth.hit THEN loads
                       ELSE [loads EXCEPT !.growth = @ + 1]
           /\ IF r.kind = "raise"
              THEN /\ pc' = "raised"
                   /\ exc' = r.exc
                   /\ UNCHANGED <<growth_data, errors, cache>>
              ELSE /\ pc' = "gate"
                   /\ growth_data' = [kind |-> r.kind, items |-> r.items]
                   /\ errors' = errors \o r.msgs
                   /\ cache' = [cache EXCEPT !.growth = Entry(r)]
                   /\ UNCHANGED exc
    /\ UNCHANGED <<fs, target, resolved, env_data, school_option, out, runs>>

\* A gate that stops only when the environment load failed.
GatePassesEnvOnly == env_data.kind # "none"

\* lines 90-91: whether the run goes on to the presentation
GatePasses == ~(env_data.kind = "none" \/ growth_data.kind = "none")

Gate ==
    /\ pc = "gate"
    /\ done' = Append(done, "gate")
    /\ pc' = IF GatePasses THEN "sidebar" ELSE "stopped"
    /\ UNCHANGED <<fs, target, resolved, cache, env_data, growth_data, errors,
                   exc, school_option, out, runs, loads>>

\* lines 96-100
Sidebar ==
    /\ pc = "sidebar"
    /\ \E opt \in {AllOption} \cup Schools : school_option' = opt
    /\ done' = Append(done, "sidebar")
    /\ pc' = "title"
    /\ UNCHANGED <<fs, target, resolved, cache, env_data, growth_data, errors,
                   exc, out, runs, loads>>

\* lines 105-107
Title ==
    /\ pc = "title"
    /\ done' = Append(done, "title")
    /\ pc' = "tab1"
    /\ UNCHANGED <<fs, target, resolved, cache, env_data, growth_data, errors,
                   exc, school_option, out, runs, loads>>

\* lines 112-146
Tab1 ==
    /\ pc = "tab1"
    /\ done' = Append(done, "tab1")
    /\ LET all_env == concat(DictValues(env_data.items))
           aw == avg_weights(growth_data.items)
           shown == [out EXCEPT !.info_rows = info_rows(growth_data.items)]
       IN  IF ~aw.ok
           THEN /\ pc' = "raised"
                /\ exc' = "KeyError"
                /\ out' = shown
           ELSE /\ pc' = "tab2"
                /\ out' = [shown EXCEPT
                             !.total_plants = <<total_plants(growth_data.items)>>,
                             !.avg_temp = <<mean(Column(all_env, "temperature"))>>,
                             !.avg_hum = <<mean(Column(all_env, "humidity"))>>,
                             !.optimal_ec = <<optimal_ec(aw.d)>>]
                /\ UNCHANGED exc
    /\ UNCHANGED <<fs, target, resolved, cache, env_data, growth_data, errors,
                   school_option, runs, loads>>

\* lines 151-224
Tab2 ==
    /\ pc = "tab2"
    /\ done' = Append(done, "tab2")
    /\ pc' = "tab3"
    /\ out' = [out EXCEPT
                 !.summary = summary(env_data.items),
                 !.plotted = schools_to_plot(school_option),
                 !.env_all = concat(DictValues(env_data.items))]
    /\ UNCHANGED <<fs, target, resolved, cache, env_data, growth_data, errors,
                   exc, school_option, runs, loads>>

\* lines 229-300.  With no mean to pick, idxmax returns NaN and .loc raises
\* KeyError, or idxmax itself raises ValueError, depending on the pandas used.
Tab3 ==
    /\ pc = "tab3"
    /\ done' = Append(done, "tab3")
    /\ LET wdf == weight_df(growth_data.items)
           best == idxmax([i \in 1..Len(wdf) |-> wdf[i].mean])
       IN  IF best = 0
           THEN /\ pc' = "raised"
                /\ \E e \in {"KeyError", "ValueError"} : exc' = e
                /\ out' = [out EXCEPT !.weight_df = wdf]
           ELSE /\ pc' = "done"
                /\ out' = [out EXCEPT
                             !.weight_df = wdf,
                             !.best_ec = <<wdf[best].EC>>,
                             !.dist_df = concat(DictValues(growth_data.items))]
                /\ UNCHANGED exc
    /\ UNCHANGED <<fs, target, resolved, cache, env_data, growth_data, errors,
                   school_option, runs, loads>>

\* One script run: lines 86-300.
NextRun ==
    \/ LoadEnvData
    \/ LoadGrowthData
    \/ Gate
    \/ Sidebar
    \/ Title
    \/ Tab1
    \/ Tab2
    \/ Tab3

----------------------------------------------------------------------------
(* Files.  A directory is [exists, entries]; an entry is [name, content].  *)

Csv(rows) == [kind |-> "csv", ok |-> TRUE, rows |-> rows, sheets |-> <<>>]
BadCsv == [kind |-> "csv", ok |-> FALSE, rows |-> <<>>, sheets |-> <<>>]
Xlsx(sheets) == [kind |-> "xlsx", ok |-> TRUE, rows |-> <<>>, sheets |-> sheets]
BadXlsx == [kind |-> "xlsx", ok |-> FALSE, rows |-> <<>>, sheets |-> <<>>]
Other == [kind |-> "other", ok |-> FALSE, rows |-> <<>>, sheets |-> <<>>]

Sheet(name, cells) ==
    [name |-> name, ok |-> TRUE,
     rows |-> [i \in 1..Len(cells) |-> [weight |-> cells[i]]]]
BadSheet(name) == [name |-> name, ok |-> FALSE, rows |-> <<>>]

SeqsUpTo(S, n) == UNION {[1..m -> S] : m \in 0..n}

Injective(s) == \A i, j \in 1..Len(s) : i # j => s[i] # s[j]

MissingDir == [exists |-> FALSE, entries |-> <<>>]

\* A data directory whose names are stored in one normalization form; a
\* choice is <<>> (the file is absent) or <<content>>.
DataDir(form, envChoice, wbChoice) ==
    [exists |-> TRUE,
     entries |->
        concat([i \in 1..Len(SCHOOL_INFO) |->
                  IF envChoice[i] = <<>> THEN <<>>
                  ELSE << [name |-> normalize(EnvFileName(SCHOOL_INFO[i].k), form),
                           content |-> envChoice[i][1]] >>])
        \o (IF wbChoice = <<>> THEN <<>>
            ELSE << [name |-> normalize(GrowthFileName, form),
                     content |-> wbChoice[1]] >>)]

\* Sample readings: pH 6.8, humidity 55, EC 1.1; and the same with pH 15.2.
GoodReading == [temperature |-> 22, humidity |-> 55, ph |-> 68, ec |-> 11]
HighPhReading == [temperature |-> 22, humidity |-> 55, ph |-> 152, ec |-> 11]

\* The readings of the files: the rows of a file are a prefix of these, which
\* begin with a good reading for the first and third entity and with a
\* reading of pH 15.2 for the others.
SampleRows(i, n) ==
    [j \in 1..n |-> IF (i + j) % 2 = 0 THEN GoodReading ELSE HighPhReading]

EnvFileChoices(i) ==
    {<<>>, <<BadCsv>>} \cup {<<Csv(SampleRows(i, n))>> : n \in 0..MaxRows}

EnvChoices ==
    {e \in [1..Len(SCHOOL_INFO) -> UNION {EnvFileChoices(i) : i \in 1..Len(SCHOOL_INFO)}] :
        \A i \in 1..Len(SCHOOL_INFO) : e[i] \in EnvFileChoices(i)}

GoodEnvFiles == [i \in 1..Len(SCHOOL_INFO) |-> <<Csv(<<GoodReading>>)>>]

Sheet1Name == <<83, 104, 101, 101, 116, 49>>

GoodWorkbook ==
    Xlsx(<< Sheet(SongdoName, << <<1>> >>), Sheet(HaneulName, << <<2>>, <<2>> >>),
            Sheet(AraName, << <<1>> >>), Sheet(DongsanName, << <<>> >>) >>)

WorkbookSamples ==
    { <<>>, <<GoodWorkbook>>, <<BadXlsx>>,
      <<Xlsx(<< Sheet(SongdoName, << <<1>> >>), BadSheet(HaneulName) >>)>> }

SheetNames == Schools \cup {Sheet1Name}

\* The 생중량(g) columns a sheet is given: no row, a blank cell, the weight 1,
\* the weights 1 and 2.
WeightColumns ==
    { <<>>, << <<>> >>, << <<1>> >>, << <<1>>, <<2>> >> }

SheetsOf(name) == {BadSheet(name)} \cup {Sheet(name, c) : c \in WeightColumns}

AllSheets == UNION {SheetsOf(n) : n \in SheetNames}

\* Workbooks of one to MaxSheets sheets with distinct names.
Workbooks ==
    {Xlsx(s) : s \in
        {q \in UNION {[1..m -> AllSheets] : m \in 1..MaxSheets} :
            Injective([i \in 1..Len(q) |-> q[i].name])}}

Forms == {"NFC", "NFD"}

\* The per-run state at the start of a script run.
FreshRun ==
    /\ pc = "load_env_data"
    /\ done = <<>>
    /\ env_data = NoData
    /\ growth_data = NoData
    /\ errors = <<>>
    /\ exc = ""
    /\ school_option = AllOption
    /\ out = NoOut

FreshProcess ==
    /\ FreshRun
    /\ cache = EmptyCache
    /\ runs = 1
    /\ loads = [env |-> 0, growth |-> 0]
    /\ target = <<>>
    /\ resolved = NotFound

\* The first run of a process over a data directory whose environment files vary.
Init ==
    /\ fs \in {DataDir(form, e, w) : form \in Forms,
                                     e \in EnvChoices,
                                     w \in WorkbookSamples}
              \cup {MissingDir}
    /\ FreshProcess

Spec == Init /\ [][NextRun]_vars

\* The first run of a process over a data directory, its names stored in NFD
\* as on macOS, whose workbook varies.
InitGrowth ==
    /\ fs \in {DataDir("NFD", GoodEnvFiles, w) :
                  w \in {<<>>, <<BadXlsx>>} \cup {<<x>> : x \in Workbooks}}
    /\ FreshProcess

SpecGrowth == InitGrowth /\ [][NextRun]_vars

----------------------------------------------------------------------------
(* Reruns.  Streamlit runs the script again on every interaction, in the   *)
(* same process and with the same cache; between two runs files may come   *)
(* and go, and the user may clear the cache (the whole of it).             *)

\* A new script run starts, in the same process, over directory dir.
StartRun(dir) ==
    /\ pc \in Ended
    /\ runs < MaxRuns
    /\ runs' = runs + 1
    /\ fs' = dir
    /\ pc' = "load_env_data"
    /\ done' = <<>>
    /\ env_data' = NoData
    /\ growth_data' = NoData
    /\ errors' = <<>>
    /\ exc' = ""
    /\ out' = NoOut
    /\ UNCHANGED <<target, resolved, cache, school_option, loads>>

RemoveAt(s, i) == SubSeq(s, 1, i - 1) \o SubSeq(s, i + 1, Len(s))

NewFiles ==
    {[name |-> EnvFileName(s), content |-> Csv(<<GoodReading>>)] : s \in Schools}
    \cup {[name |-> GrowthFileName, content |-> GoodWorkbook]}

\* The next run finds the directory as the last one left it.
Rerun == StartRun(fs)

\* The next run starts after a file has been removed from the directory.
RerunAfterRemove ==
    \E i \in 1..Len(fs.entries) :
        StartRun([fs EXCEPT !.entries = RemoveAt(fs.entries, i)])

\* The next run starts after a file has been put into the directory.
RerunAfterCreate ==
    /\ fs.exists
    /\ \E e \in NewFiles :
          /\ find_file_by_name(fs, e.name).kind = "none"
          /\ StartRun([fs EXCEPT !.entries = Append(@, e)])

ClearCache ==
    /\ pc \in Ended
    /\ runs < MaxRuns
    /\ cache # EmptyCache
    /\ cache' = EmptyCache
    /\ UNCHANGED <<fs, target, resolved, pc, done, env_data, growth_data,
                   errors, exc, school_option, out, runs, loads>>

SessionDirs ==
    { DataDir("NFC", GoodEnvFiles, <<GoodWorkbook>>),
      DataDir("NFD", [GoodEnvFiles EXCEPT ![2] = <<>>], <<GoodWorkbook>>),
      DataDir("NFC", [GoodEnvFiles EXCEPT ![4] = <<BadCsv>>], <<GoodWorkbook>>),
      DataDir("NFC", GoodEnvFiles, <<>>) }

InitSession ==
    /\ fs \in SessionDirs
    /\ FreshProcess

NextSession == NextRun \/ Rerun \/ RerunAfterRemove \/ RerunAfterCreate \/ ClearCache

SpecSession == InitSession /\ [][NextSession]_vars

----------------------------------------------------------------------------
(* The resolver alone, on directories of up to MaxDirEntries names.        *)

\* 송, 소+ᆼ, ᄉ+ᅩ+ᆼ are canonically equivalent, and so are 소, ᄉ+ᅩ.
NamePool ==
    { <<49569>>, <<49548, 4540>>, <<4361, 4457, 4540>>,
      <<49548>>, <<4361, 4457>>,
      <<4361>>, <<4361, 4540>>, <<49569, 95>>, <<95, 49548, 4540>>, <<95>> }

ResolverDirs ==
    {MissingDir} \cup
    {[exists |-> TRUE, entries |-> [i \in 1..Len(s) |-> [name |-> s[i], content |-> Other]]] :
        s \in {q \in SeqsUpTo(NamePool, MaxDirEntries) : Injective(q)}}

InitResolve ==
    /\ fs \in ResolverDirs
    /\ target \in NamePool
    /\ resolved = NotFound
    /\ pc = "resolve"
    /\ done = <<>>
    /\ env_data = NoData
    /\ growth_data = NoData
    /\ errors = <<>>
    /\ exc = ""
    /\ school_option = AllOption
    /\ out = NoOut
    /\ cache = EmptyCache
    /\ runs = 1
    /\ loads = [env |-> 0, growth |-> 0]

Resolve ==
    /\ pc = "resolve"
    /\ resolved' = find_file_by_name(fs, target)
    /\ pc' = "resolved"
    /\ UNCHANGED <<fs, target, cache, done, env_data, growth_data, errors, exc,
                   school_option, out, runs, loads>>

SpecResolve == InitResolve /\ [][Resolve]_vars

----------------------------------------------------------------------------
(* Properties.                                                             *)

Executed(step) == \E i \in 1..Len(done) : done[i] = step

CanonEq(a, b) == normalize(a, "NFD") = normalize(b, "NFD")

Min(S) == CHOOSE x \in S : \A y \in S : x <= y

\* The entries of fs that equal the target after NFC of both or NFD of both.
MatchingEntries ==
    {i \in 1..Len(fs.entries) :
        \/ normalize(fs.entries[i].name, "NFC") = normalize(target, "NFC")
        \/ normalize(fs.entries[i].name, "NFD") = normalize(target, "NFD")}

\* C1: on a directory that can be listed, find_file_by_name returns the first
\* entry, in iteration order, that equals the target after NFC of both or
\* after NFD of both, and None exactly when there is none; an entry that is
\* canonically equivalent to the target but spelt with other code points is
\* a match, and the entry returned always matches.
C1_FirstMatch ==
    (pc = "resolved" /\ fs.exists) =>
        /\ IF MatchingEntries = {} THEN resolved = NotFound
           ELSE resolved = Found(Min(MatchingEntries))
        /\ \A i \in 1..Len(fs.entries) :
              CanonEq(fs.entries[i].name, target) =>
                  resolved.kind = "found" /\ resolved.index <= i
        /\ resolved.kind = "found" =>
              CanonEq(fs.entries[resolved.index].name, target)

\* Two entries match; the first, which is returned, is neither the target's
\* spelling nor in NFC or NFD form itself.
C1_Witness ==
    /\ pc = "resolved"
    /\ Cardinality(MatchingEntries) = 2
    /\ resolved = Found(1)
    /\ fs.entries[1].name # target
    /\ fs.entries[1].name # normalize(fs.entries[1].name, "NFC")
    /\ fs.entries[1].name # normalize(fs.entries[1].name, "NFD")

\* C2: when the data directory does not exist, resolution gives None and
\* load_env_data ends in its missing-dataset outcome (an error reported,
\* None returned), not in an exception.
C2_MissingDirIsNotFound ==
    (~fs.exists /\ Executed("load_env_data")) =>
        /\ find_file_by_name(fs, EnvFileName(SongdoName)) = NotFound
        /\ pc # "raised"
        /\ env_data.kind = "none"
        /\ errors # <<>>

----------------------------------------------------------------------------

EnvResolution(i) == find_file_by_name(fs, EnvFileName(SCHOOL_INFO[i].k))

EnvFile(i) == fs.entries[EnvResolution(i).index].content

EnvReadable(i) == EnvResolution(i).kind = "found" /\ EnvFile(i).ok

\* The first entity whose file is not both resolved and parsed; 5 if none.
FirstEnvStop ==
    Min({i \in 1..Len(SCHOOL_INFO) : ~EnvReadable(i)} \cup {Len(SCHOOL_INFO) + 1})

\* C3: load_env_data is all-or-nothing.  When the load comes to an entity
\* whose file is not resolved it stops there: it has read the files of the
\* entities before it and no other, reports that file as missing, returns
\* None and keeps none of the tables read; a mapping it returns has exactly
\* the four entities of SCHOOL_INFO as keys, in that order; nothing between
\* None and the full mapping is ever returned or cached.
C3_AllOrNothing ==
    Executed("load_env_data") =>
        LET stop == FirstEnvStop IN
        /\ env_data.kind \in {"unset", "none", "dict"}
        /\ env_data.kind = "dict" =>
              /\ DictKeys(env_data.items) = DictKeys(SCHOOL_INFO)
              /\ stop = Len(SCHOOL_INFO) + 1
        /\ env_data.kind # "dict" => env_data.items = <<>> /\ cache.env.items = <<>>
        /\ (stop <= Len(SCHOOL_INFO) /\ EnvResolution(stop).kind = "none") =>
              /\ env_data = [kind |-> "none", items |-> <<>>]
              /\ errors[1] = [text |-> "env_missing",
                              file |-> EnvFileName(SCHOOL_INFO[stop].k)]
              /\ load_env_data_body(fs).read = stop - 1
        /\ env_data.kind = "unset" => pc = "raised"

\* The third entity's file is missing: two tables were read and dropped.
C3_Witness ==
    /\ Executed("load_env_data")
    /\ fs.exists
    /\ FirstEnvStop = 3
    /\ EnvResolution(3).kind = "none"
    /\ Len(EnvFile(1).rows) > 0
    /\ env_data.kind = "none"

Untag(row) ==
    [temperature |-> row.temperature, humidity |-> row.humidity, ph |-> row.ph,
     ec |-> row.ec]

\* C4: after a successful load_env_data every row carries the key of its
\* table as entity tag, the key is one of the four entities, tables of
\* different entities share no row, each table holds the rows of its file in
\* order, and the row counts of the tables (and of their concatenation in
\* tab 2) add up to the rows read from the four files.
C4_RowsPreserved ==
    env_data.kind = "dict" =>
        LET files == [i \in 1..Len(SCHOOL_INFO) |-> EnvFile(i).rows]
            read == SumInts([i \in 1..Len(SCHOOL_INFO) |-> Len(files[i])])
        IN
        /\ \A i \in 1..Len(env_data.items) :
              LET tbl == env_data.items[i] IN
              /\ tbl.k \in Schools
              /\ \A j \in 1..Len(tbl.v) : tbl.v[j].school = tbl.k
              /\ [j \in 1..Len(tbl.v) |-> Untag(tbl.v[j])] = files[i]
              /\ \A i2 \in 1..Len(env_data.items) : \A j \in 1..Len(tbl.v) :
                    i2 # i => \A j2 \in 1..Len(env_data.items[i2].v) :
                                 env_data.items[i2].v[j2] # tbl.v[j]
        /\ SumInts([i \in 1..Len(env_data.items) |-> Len(env_data.items[i].v)]) = read
        /\ Len(concat(DictValues(env_data.items))) = read
        /\ Executed("tab2") => Len(out.env_all) = read

\* Tab 2 has concatenated the tables of a load in which one file had no row.
C4_Witness ==
    /\ Executed("tab2")
    /\ Len(out.env_all) = Len(SCHOOL_INFO) - 1
    /\ \E i \in 1..Len(env_data.items) : env_data.items[i].v = <<>>
    /\ \E i \in 1..Len(out.env_all) : out.env_all[i].school = DongsanName

Invalid(r) ==
    \/ r.ph < 0 \/ r.ph > 140
    \/ r.humidity < 0 \/ r.humidity > 100
    \/ r.ec < 0

Select(rows, keep) == SelectSeq(rows, LAMBDA r : (Invalid(r) <=> ~keep))

\* The tables tab 2 derives from the environment tables.
DerivedEnvTables == {out.env_all}

\* C5: every environment reading is placed in one of two partitions, valid
\* and invalid (pH outside [0,14], humidity outside [0,100] or EC negative),
\* which are disjoint and together make up the table: once tab 2 has run
\* over readings of which one is invalid, the invalid rows and the valid
\* rows are each a table it has derived.
C5_Partitioned ==
    (Executed("tab2") /\ \E i \in 1..Len(out.env_all) : Invalid(out.env_all[i])) =>
        /\ Select(out.env_all, FALSE) \in DerivedEnvTables
        /\ Select(out.env_all, TRUE) \in DerivedEnvTables

----------------------------------------------------------------------------

Means == [i \in 1..Len(growth_data.items) |->
             mean_cells(Column(growth_data.items[i].v, "weight"))]

\* The first entity, in insertion order, whose mean fresh weight is maximal.
FirstMaximal ==
    Min({i \in 1..Len(Means) :
            ~IsNaN(Means[i]) /\ \A j \in 1..Len(Means) : ~Gt(Means[j], Means[i])})

\* C6: optimal_ec (tab 1) and best_ec (tab 3) are both the target EC of the
\* entity whose mean fresh weight is maximal, the first in insertion order
\* of the growth mapping among equals, and so are equal.
C6_OptimalEc ==
    pc = "done" =>
        /\ out.optimal_ec = <<DictGet(SCHOOL_INFO, growth_data.items[FirstMaximal].k).ec>>
        /\ out.best_ec = out.optimal_ec

\* C7: whatever sheets the resolved workbook holds, every key of the growth
\* mapping and every row's entity tag is one of the four entities, so the
\* SCHOOL_INFO lookups of tab 1 and tab 3 are defined and the plant counts
\* of tab 1 leave out no loaded row.
C7_TagsKnown ==
    growth_data.kind = "dict" =>
        /\ \A i \in 1..Len(growth_data.items) :
              /\ growth_data.items[i].k \in Schools
              /\ \A j \in 1..Len(growth_data.items[i].v) :
                    growth_data.items[i].v[j].school \in Schools
        /\ exc # "KeyError"
        /\ out.total_plants # <<>> =>
              out.total_plants = <<Len(concat(DictValues(growth_data.items)))>>

----------------------------------------------------------------------------

Presented == \E s \in PresentationSteps : Executed(s)

\* A loader of this run let an exception out.
EnvLoadRaised == pc = "raised" /\ done = <<"load_env_data">>

GrowthLoadRaised == pc = "raised" /\ done = <<"load_env_data", "load_growth_data">>

\* The failures C8 names: a file not resolved (None), a parse error.
EnvLoadFailed ==
    \/ env_data.kind = "none"
    \/ (EnvLoadRaised /\ exc = "ParserError")

GrowthLoadFailed ==
    \/ growth_data.kind = "none"
    \/ (GrowthLoadRaised /\ exc \in {"ParserError", "BadZipFile"})

Reported == errors # <<>> \/ exc # ""

\* C8 as stated: a run in which a loader fails (a file not resolved, or a
\* parse error) executes no presentation step and has reported the failure
\* when it halts, presentation steps run only after both loaders returned a
\* mapping, and a failed environment load does not keep the growth load
\* from being attempted before the halt.
C8_AsStated ==
    /\ Presented => env_data.kind = "dict" /\ growth_data.kind = "dict"
    /\ (pc \in Ended /\ (EnvLoadFailed \/ GrowthLoadFailed)) => ~Presented /\ Reported
    /\ (pc \in Ended /\ EnvLoadFailed) => Executed("load_growth_data")

\* C8, amended: as stated, except that the growth load is attempted after a
\* failed environment load only when that load returned None; an environment
\* load that raises, as it does on a parse error, ends the run there, the
\* growth load not attempted.  A None is reported with st.error before
\* st.stop; a raised failure ends the run as an uncaught exception.
C8_Gate ==
    /\ Presented => env_data.kind = "dict" /\ growth_data.kind = "dict"
    /\ (pc \in Ended /\ (EnvLoadFailed \/ GrowthLoadFailed
                         \/ EnvLoadRaised \/ GrowthLoadRaised)) =>
          ~Presented /\ Reported
    /\ pc = "stopped" =>
          /\ env_data.kind = "none" \/ growth_data.kind = "none"
          /\ Len(errors) = (IF env_data.kind = "none" THEN 1 ELSE 0)
                           + (IF growth_data.kind = "none" THEN 1 ELSE 0)
    /\ (pc \in Ended /\ env_data.kind = "none") => Executed("load_growth_data")
    /\ (pc = "raised" /\ env_data.kind = "unset") =>
          EnvLoadRaised /\ growth_data.kind = "unset" /\ exc # ""

\* Both loads returned None: the growth load was attempted after the failed
\* environment load, both were reported, and the run stopped at the gate.
C8_Witness ==
    /\ pc = "stopped"
    /\ env_data.kind = "none"
    /\ growth_data.kind = "none"
    /\ Len(errors) = 2
    /\ done = <<"load_env_data", "load_growth_data", "gate">>

----------------------------------------------------------------------------

GrowthResolution == find_file_by_name(fs, GrowthFileName)

\* C9: load_growth_data is all-or-nothing over the sheets it discovers.  An
\* unresolved workbook gives None and no table; a workbook or sheet that
\* does not parse makes the load raise and nothing is returned or cached;
\* a mapping returned has exactly the workbook's sheet names as keys, in
\* sheet order, and the table under key s holds the rows of sheet s, each
\* tagged s.
C9_SheetsDiscovered ==
    Executed("load_growth_data") =>
        LET res == GrowthResolution
            xls == fs.entries[res.index].content
        IN
        /\ res.kind = "none" => growth_data = [kind |-> "none", items |-> <<>>]
        /\ (res.kind = "found" /\
            (~xls.ok \/ \E i \in 1..Len(xls.sheets) : ~xls.sheets[i].ok)) =>
              /\ pc = "raised"
              /\ growth_data = NoData
              /\ cache.growth = NoEntry
        /\ growth_data.kind = "dict" =>
              /\ res.kind = "found"
              /\ DictKeys(growth_data.items) =
                    [i \in 1..Len(xls.sheets) |-> xls.sheets[i].name]
              /\ \A i \in 1..Len(growth_data.items) :
                    growth_data.items[i].v =
                       [j \in 1..Len(xls.sheets[i].rows) |->
                           [weight |-> xls.sheets[i].rows[j].weight,
                            school |-> growth_data.items[i].k]]

\* A mapping was returned for a workbook with a sheet that is no entity.
C9_Witness ==
    /\ Executed("load_growth_data")
    /\ growth_data.kind = "dict"
    /\ Len(growth_data.items) = MaxSheets
    /\ \E i \in 1..Len(growth_data.items) :
          growth_data.items[i].k = Sheet1Name /\ Len(growth_data.items[i].v) = 2

----------------------------------------------------------------------------

\* What a step may do to the cache and to the loaded tables.
MemoizedStep ==
    /\ (pc = "load_env_data" /\ cache.env.hit /\ pc' # pc) =>
          /\ loads' = loads
          /\ cache' = cache
          /\ env_data' = [kind |-> cache.env.kind, items |-> cache.env.items]
    /\ (pc = "load_growth_data" /\ cache.growth.hit /\ pc' # pc) =>
          /\ loads' = loads
          /\ cache' = cache
          /\ growth_data' = [kind |-> cache.growth.kind, items |-> cache.growth.items]
    /\ (cache.env.hit /\ cache'.env # cache.env) => cache' = EmptyCache
    /\ (cache.growth.hit /\ cache'.growth # cache.growth) => cache' = EmptyCache
    /\ (env_data.kind # "unset" /\ env_data' # env_data) => pc \in Ended /\ pc' = "load_env_data"
    /\ (growth_data.kind # "unset" /\ growth_data' # growth_data) =>
          pc \in Ended /\ pc' = "load_env_data"
    /\ loads'.env + loads'.growth <= loads.env + loads.growth + 1
    /\ loads'.env > loads.env => ~cache.env.hit
    /\ loads'.growth > loads.growth => ~cache.growth.hit

\* C10: once a loader has returned, every later call of it in the process
\* returns the stored result without running its body (no file resolved or
\* parsed), until the cache is cleared, and clearing clears all of it; the
\* tables of a run change only when the next run starts.
C10_Memoized == [][MemoizedStep]_vars

\* A second run has got the first run's tables from the cache although the
\* directory no longer yields them.
C10_Witness ==
    /\ runs = 2
    /\ Executed("load_growth_data")
    /\ loads = [env |-> 1, growth |-> 1]
    /\ env_data.kind = "dict"
    /\ load_env_data_body(fs).kind = "none"

============================================================================
